---------------------------- MODULE Spec2Model ----------------------------
(***************************************************************************)
(* A model of setuptools_rust/tomlgen.py: the `tomlgen_rust` command       *)
(* (run, build_cargo_toml, build_workspace_toml, iter_dependencies), the   *)
(* helper _slugify and the discovery function find_rust_extensions.        *)
(*                                                                         *)
(* Text is modelled as a sequence of tokens.  Extension names are          *)
(* sequences of single characters, so that _slugify works on characters.   *)
(* A path is a sequence of components; the component "/cwd" at the front   *)
(* spells the absolute path of the current working directory and "." is    *)
(* the current-directory component.  The setup script lives in the current *)
(* working directory, so the workspace root is the current directory.      *)
(***************************************************************************)
EXTENDS Naturals, Sequences, FiniteSets, TLC

VARIABLES
    extensions,        \* self.extensions: the list of RustExtension objects
    force,             \* self.force
    create_workspace,  \* self.create_workspace
    cfg,               \* self.cfg: section name -> list of (key, value)
    fs,                \* the disk: resolved path -> content, NoFile if absent
    fs0,               \* the disk when the current run() started
    pc,                \* where run() is: "loop", "workspace", "done", "error"
    idx,               \* 1-based position of the `for ext in ...` loop
    ext,               \* the loop variable `ext` of run()
    events,            \* what the current run() did, oldest first
    runs,              \* number of run() calls started
    prev,              \* how the previous run() ended: "none", "done", "error"
    toml,              \* result of build_cargo_toml / build_workspace_toml
    name,              \* argument of _slugify
    slug,              \* result of _slugify
    directories,       \* argument of find_rust_extensions
    tree,              \* the directories that exist under the cwd
    libdirs,           \* the directories that contain the entry file
    order,             \* the order in which os.walk lists sub-directories
    found              \* result of find_rust_extensions

vars == <<extensions, force, create_workspace, cfg, fs, fs0, pc, idx, ext,
          events, runs, prev, toml, name, slug, directories, tree, libdirs,
          order, found>>

runVars   == <<extensions, force, create_workspace, cfg, fs, fs0, pc, idx,
               ext, events, runs, prev>>
slugVars  == <<name, slug>>
findVars  == <<directories, tree, libdirs, order, found>>

\* A result not computed yet is <<>>; a computed result r is <<r>>.
NotYet == <<>>
Result(r) == <<r>>

\* What a path holds on disk.
NoFile       == [state |-> "absent",    doc |-> <<>>]  \* no such file
OldContent   == [state |-> "old",       doc |-> <<>>]  \* there before any run
Truncated    == [state |-> "truncated", doc |-> <<>>]  \* opened, write failed
Written(doc) == [state |-> "written",   doc |-> doc]   \* toml.write(manifest)

\* `ext` before the loop of run() has bound it
Unbound == [name |-> <<>>, path |-> <<>>, libfile |-> <<>>]

-----------------------------------------------------------------------------
(* Bounds of the model                                                     *)

MaxNameLen == 3   \* longest name given to _slugify
MaxExts    == 2   \* longest extension list
MaxRoots   == 2   \* longest list of root directories
MaxRuns    == 2   \* run() calls in a row

\* All sequences over S of length at most n.
SeqUpTo(S, n) == UNION { [1..k -> S] : k \in 0..n }

-----------------------------------------------------------------------------
(* Text helpers                                                            *)

RECURSIVE Concat(_)
\* ''.join(parts)
Concat(parts) ==
    IF parts = <<>> THEN <<>> ELSE Head(parts) \o Concat(Tail(parts))

RECURSIVE JoinWith(_, _)
\* sep.join(parts)
JoinWith(sep, parts) ==
    IF parts = <<>> THEN <<>>
    ELSE IF Len(parts) = 1 THEN parts[1]
    ELSE parts[1] \o sep \o JoinWith(sep, Tail(parts))

\* '"{}"'.format(s)
quote(s) == <<"\"">> \o s \o <<"\"">>

-----------------------------------------------------------------------------
(* _slugify                                                                *)

\* string.ascii_letters
ascii_letters ==
    {"a","b","c","d","e","f","g","h","i","j","k","l","m",
     "n","o","p","q","r","s","t","u","v","w","x","y","z",
     "A","B","C","D","E","F","G","H","I","J","K","L","M",
     "N","O","P","Q","R","S","T","U","V","W","X","Y","Z"}

\* string.digits
digits == {"0","1","2","3","4","5","6","7","8","9"}

allowed_nodigits == ascii_letters \cup {"_"}
\* allowed = set(string.ascii_letters + string.digits + '_')
allowed == ascii_letters \cup digits \cup {"_"}

\* [char if char in allowed else '_' for char in name], joined
_slugify(nm) ==
    [i \in 1..Len(nm) |-> IF nm[i] \in allowed THEN nm[i] ELSE "_"]

\* Characters the names given to _slugify are drawn from: letters of both
\* cases, digits, underscore, punctuation, a blank and a non-ASCII letter.
NameChars == {"a", "Z", "7", "_", ".", "-", " ", "é"}

InitSlug ==
    /\ name \in SeqUpTo(NameChars, MaxNameLen)
    /\ slug = NotYet

Slugify ==
    /\ slug = NotYet
    /\ slug' = Result(_slugify(name))
    /\ UNCHANGED name


-----------------------------------------------------------------------------
(* Paths (os.path)                                                         *)

CwdAbs == "/cwd"     \* os.getcwd(), as the first component of a path

RECURSIVE DropDots(_)
DropDots(p) ==
    IF p = <<>> THEN <<>>
    ELSE IF Head(p) = "." THEN DropDots(Tail(p))
    ELSE <<Head(p)>> \o DropDots(Tail(p))

\* The components of p below the current working directory: what
\* os.path.abspath makes equal for two spellings of the same file.
Resolve(p) ==
    DropDots(IF p # <<>> /\ Head(p) = CwdAbs THEN Tail(p) ELSE p)

\* os.path.join(base, leaf)
path_join(base, leaf) == base \o <<leaf>>

\* os.path.dirname(p): "a/Cargo.toml" -> "a", "Cargo.toml" -> ""
dirname(p) == IF p = <<>> THEN <<>> ELSE SubSeq(p, 1, Len(p) - 1)

RECURSIVE CommonLen(_, _)
CommonLen(p, q) ==
    IF p = <<>> \/ q = <<>> \/ Head(p) # Head(q) THEN 0
    ELSE 1 + CommonLen(Tail(p), Tail(q))

\* os.path.relpath(p, start): the way from directory `start` to p
relpath_from(p, start) ==
    LET target == Resolve(p)
        from   == Resolve(start)
        c      == CommonLen(target, from)
        rel    == [i \in 1..(Len(from) - c) |-> ".."]
                      \o SubSeq(target, c + 1, Len(target))
    IN  IF rel = <<>> THEN <<".">> ELSE rel

\* os.path.relpath(p): the way from the current working directory to p
relpath(p) == relpath_from(p, <<>>)

\* The text of a path: its components with os.path.sep between them.
PathText(p) == JoinWith(<<"/">>, [i \in 1..Len(p) |-> <<p[i]>>])

\* text.replace(os.path.sep, '.')
ReplaceSep(text) ==
    [i \in 1..Len(text) |-> IF text[i] = "/" THEN "." ELSE text[i]]

\* self.workspace = os.path.abspath(os.path.dirname(script_name) or '.')
workspace == <<CwdAbs>>

-----------------------------------------------------------------------------
(* configparser.ConfigParser used as a document builder                    *)

\* configparser.ConfigParser()
NewConfig == <<>>

\* toml.add_section(section)
add_section(doc, section) == Append(doc, [name |-> section, items |-> <<>>])

HasKey(items, key) == \E i \in 1..Len(items) : items[i][1] = key

\* one section's mapping after `key = value`: an existing key keeps its
\* place and takes the new value, a new key goes to the end
SetItem(items, key, value) ==
    IF HasKey(items, key)
    THEN [i \in 1..Len(items) |->
             IF items[i][1] = key THEN <<key, value>> ELSE items[i]]
    ELSE Append(items, <<key, value>>)

\* toml.set(section, key, value)
set(doc, section, key, value) ==
    [i \in 1..Len(doc) |->
        IF doc[i].name = section
        THEN [doc[i] EXCEPT !.items = SetItem(@, key, value)]
        ELSE doc[i]]

RECURSIVE SetAll(_, _, _)
\* for dep, options in pairs: toml.set(section, dep, options)
SetAll(doc, section, pairs) ==
    IF pairs = <<>> THEN doc
    ELSE SetAll(set(doc, section, pairs[1][1], pairs[1][2]),
                section, Tail(pairs))

-----------------------------------------------------------------------------
(* tomlgen_rust: manifest synthesis                                        *)

command == "tomlgen_rust"          \* self.get_command_name()
Version == <<"1.2.3">>             \* dist.get_version()
Authors == <<"[\"A. Dev <a@x.com>\"]">>   \* self.authors, as finalized

GlobalSection == <<command, ".dependencies">>
ExtSection(e) == <<command, ".dependencies", ".">> \o e.name

\* self.cfg.has_section(section)
has_section(section) == section \in DOMAIN cfg

\* self.cfg.items(section)
items_of(section) == cfg[section]

sections_ext_first(e) == <<ExtSection(e), GlobalSection>>
\* sections = [global]; sections.append(per-extension)
sections_of(e) == <<GlobalSection, ExtSection(e)>>

\* iter_dependencies(ext): every (dep, options) it yields, in order
iter_dependencies(e) ==
    LET sections == sections_of(e)
    IN  Concat([i \in 1..Len(sections) |->
                  IF has_section(sections[i]) THEN items_of(sections[i])
                  ELSE <<>>])

build_cargo_toml(e) ==
    LET tomldir == dirname(e.path)
        t1 == add_section(NewConfig, "package")
        t2 == set(t1, "package", "name", quote(e.name))
        t3 == set(t2, "package", "version", quote(Version))
        t4 == set(t3, "package", "authors", Authors)
        t5 == set(t4, "package", "publish", <<"false">>)
        t6 == IF create_workspace
              THEN set(t5, "package", "workspace",
                       quote(PathText(relpath_from(workspace, tomldir))))
              ELSE t5
        t7 == add_section(t6, "lib")
        t8 == set(t7, "lib", "crate-type", <<"[\"cdylib\"]">>)
        t9 == set(t8, "lib", "name", quote(_slugify(e.name)))
        t10 == set(t9, "lib", "path",
                   quote(PathText(relpath_from(e.libfile, tomldir))))
        t11 == add_section(t10, "dependencies")
    IN  SetAll(t11, "dependencies", iter_dependencies(e))

members_reversed(exts) ==
    [i \in 1..Len(exts) |->
        quote(PathText(dirname(relpath(exts[Len(exts) + 1 - i].path))))]
\* members = ['"{}"'.format(os.path.dirname(os.path.relpath(ext.path)))
\*            for ext in self.extensions]
members_of(exts) ==
    [i \in 1..Len(exts) |-> quote(PathText(dirname(relpath(exts[i].path))))]

build_workspace_toml ==
    LET members == members_of(extensions)
        t1 == add_section(NewConfig, "workspace")
    IN  set(t1, "workspace", "members",
            <<"[">> \o JoinWith(<<", ">>, members) \o <<"]">>)


-----------------------------------------------------------------------------
(* find_rust_extensions                                                    *)

libfile == "lib.rs"                 \* the default entry filename

\* is q a prefix of p
IsPrefix(q, p) == Len(q) <= Len(p) /\ SubSeq(p, 1, Len(q)) = q

RECURSIVE walk(_)
walk_top_only(top) == IF Resolve(top) \in tree THEN <<top>> ELSE <<>>
\* os.walk(top), top-down: the base directories it yields, as spelled.  A
\* top that is no directory yields nothing; sub-directories come in the
\* order the directory listing gives them.
walk(top) ==
    IF Resolve(top) \notin tree THEN <<>>
    ELSE <<top>> \o
         Concat([i \in 1..Len(order) |-> walk(path_join(top, order[i]))])

\* RustExtension(dotpath, tomlpath) with ext.libfile set
RustExtension(base) ==
    [name    |-> ReplaceSep(PathText(relpath(base))),
     path    |-> path_join(base, "Cargo.toml"),
     libfile |-> path_join(base, libfile)]

\* the extensions one root contributes
FoundUnder(directory) ==
    LET bases == walk(directory)
    IN  Concat([i \in 1..Len(bases) |->
                  IF Resolve(bases[i]) \in libdirs
                  THEN <<RustExtension(bases[i])>> ELSE <<>>])

find_rust_extensions(dirs) ==
    LET roots == IF dirs = <<>> THEN << <<CwdAbs>> >> ELSE dirs
    IN  Concat([i \in 1..Len(roots) |-> FoundUnder(roots[i])])

\* The directories that may exist below the current working directory.
DirUniverse ==
    { <<>>, <<"a">>, <<"b">>, <<"a", "a">>, <<"a", "b">> }

\* The spellings a root directory may be given in.
RootPool ==
    { <<".">>, <<CwdAbs>>, <<"a">>, <<".", "a">>, <<"a", "b">>, <<"b">> }

InitFind ==
    /\ tree \in { t \in SUBSET DirUniverse :
                    /\ <<>> \in t
                    /\ \A d \in t : d # <<>> => dirname(d) \in t }
    /\ libdirs \in SUBSET tree
    /\ order \in { <<"a", "b">>, <<"b", "a">> }
    /\ directories \in SeqUpTo(RootPool, MaxRoots)
    /\ found = NotYet

Find ==
    /\ found = NotYet
    /\ found' = Result(find_rust_extensions(directories))
    /\ UNCHANGED <<directories, tree, libdirs, order>>


-----------------------------------------------------------------------------
(* tomlgen_rust.run                                                        *)

\* An extension found in directory `base`, named nm.
ExtAt(nm, base) ==
    [name    |-> nm,
     path    |-> path_join(base, "Cargo.toml"),
     libfile |-> path_join(base, libfile)]

\* The extensions a list may hold.  The second and third are the same
\* directory under two spellings, so they share one manifest file; the last
\* is what discovery returns for the current working directory itself, whose
\* manifest path is the workspace root's Cargo.toml.
ExtPool ==
    { ExtAt(<<"b">>, <<"b">>),
      ExtAt(<<"a">>, <<"a">>),
      ExtAt(<<"a", "-", "2">>, <<".", "a">>),
      ExtAt(<<".">>, <<CwdAbs>>) }

\* toml_path = os.path.join(self.workspace, "Cargo.toml")
toml_path == path_join(workspace, "Cargo.toml")

\* Every file run() may touch.
Files == { Resolve(e.path) : e \in ExtPool } \cup { Resolve(toml_path) }

\* The configurations a run is checked under: none, and one with a global
\* and a per-extension dependency section.
RunConfigs ==
    { <<>>,
      [s \in {GlobalSection, ExtSection(ExtAt(<<"a">>, <<"a">>))} |->
          IF s = GlobalSection
          THEN << <<"libc", <<"\"0.2\"">> >> >>
          ELSE << <<"libc", <<"\"0.3\"">> >>, <<"cpython", <<"\"*\"">> >> >>] }

exists_at_start(p) == fs0[Resolve(p)] # NoFile
\* os.path.exists(p)
exists(p) == fs[Resolve(p)] # NoFile

write_always(p) == TRUE
\* `not os.path.exists(p) or self.force`
write_guard(p) == ~exists(p) \/ force

workspace_own_path == toml_path
\* the path whose existence the workspace step tests: `ext.path`, with
\* `ext` still bound to the last extension of the loop
workspace_check_path == ext.path

swallow_error == "loop"
\* an exception of open() or write() is not caught: it leaves run()
propagate_error == "error"

Event(target, pos, p, kind) ==
    [target |-> target, pos |-> pos, file |-> Resolve(p), kind |-> kind,
     existed |-> exists(p)]

\* `with open(p, 'w') as manifest: toml.write(manifest)` and what follows:
\* the write succeeds and run() goes on at `next`; or open() raises and the
\* disk is as it was; or the file is opened, which truncates it, and the
\* write raises.
WriteManifest(target, pos, p, content, next) ==
    \/ /\ fs' = [fs EXCEPT ![Resolve(p)] = Written(content)]
       /\ events' = Append(events, Event(target, pos, p, "write"))
       /\ pc' = next
       /\ idx' = idx + 1
    \/ /\ fs' = fs
       /\ events' = Append(events, Event(target, pos, p, "open_failed"))
       /\ pc' = propagate_error
       /\ idx' = idx
    \/ /\ fs' = [fs EXCEPT ![Resolve(p)] = Truncated]
       /\ events' = Append(events, Event(target, pos, p, "write_failed"))
       /\ pc' = propagate_error
       /\ idx' = idx

SkipManifest(target, pos, p, next) ==
    /\ fs' = fs
    /\ events' = Append(events, Event(target, pos, p, "skip"))
    /\ pc' = next
    /\ idx' = idx + 1

InitRun ==
    /\ extensions \in SeqUpTo(ExtPool, MaxExts)
    /\ force \in BOOLEAN
    /\ create_workspace \in BOOLEAN
    /\ cfg \in RunConfigs
    /\ fs \in [Files -> {NoFile, OldContent}]
    /\ fs0 = fs
    /\ pc = "loop"
    /\ idx = 1
    /\ ext = Unbound
    /\ events = <<>>
    /\ runs = 1
    /\ prev = "none"

\* one iteration of `for ext in self.extensions`
ProcessExtension ==
    /\ pc = "loop"
    /\ idx <= Len(extensions)
    /\ LET e == extensions[idx]
       IN  /\ ext' = e
           /\ IF write_guard(e.path)
              THEN WriteManifest("ext", idx, e.path, build_cargo_toml(e), "loop")
              ELSE SkipManifest("ext", idx, e.path, "loop")
    /\ UNCHANGED <<extensions, force, create_workspace, cfg, fs0, runs, prev>>

\* the workspace step, after the loop has run to its end
ProcessWorkspace ==
    /\ pc = "loop"
    /\ idx > Len(extensions)
    /\ IF create_workspace /\ extensions # <<>>
       THEN IF write_guard(workspace_check_path)
            THEN WriteManifest("workspace", 0, toml_path,
                               build_workspace_toml, "done")
            ELSE SkipManifest("workspace", 0, toml_path, "done")
       ELSE /\ pc' = "done"
            /\ UNCHANGED <<fs, events, idx>>
    /\ UNCHANGED <<extensions, force, create_workspace, cfg, fs0, ext,
                   runs, prev>>

\* the command is run again, on the disk the last run left and with the
\* same options, configuration and extension list
RunAgain ==
    /\ pc \in {"done", "error"}
    /\ runs < MaxRuns
    /\ runs' = runs + 1
    /\ prev' = pc
    /\ pc' = "loop"
    /\ idx' = 1
    /\ ext' = Unbound
    /\ events' = <<>>
    /\ fs0' = fs
    /\ UNCHANGED <<extensions, force, create_workspace, cfg, fs>>

-----------------------------------------------------------------------------
(* Specifications                                                          *)

\* Values of the variables a specification does not use.
IdleRun ==
    /\ extensions = <<>> /\ force = FALSE /\ create_workspace = FALSE
    /\ cfg = <<>> /\ fs = <<>> /\ fs0 = <<>> /\ pc = "idle" /\ idx = 0
    /\ ext = Unbound /\ events = <<>> /\ runs = 0 /\ prev = "none"
IdleSlug == name = <<>> /\ slug = NotYet
IdleFind ==
    /\ directories = <<>> /\ tree = {} /\ libdirs = {} /\ order = <<>>
    /\ found = NotYet

\* run(), once or several times in a row
Init == InitRun /\ toml = NotYet /\ IdleSlug /\ IdleFind
Next ==
    \/ ProcessExtension /\ UNCHANGED <<toml, slugVars, findVars>>
    \/ ProcessWorkspace /\ UNCHANGED <<toml, slugVars, findVars>>
    \/ RunAgain /\ UNCHANGED <<toml, slugVars, findVars>>
Spec == Init /\ [][Next]_vars

\* _slugify applied to a name
InitS == InitSlug /\ IdleRun /\ toml = NotYet /\ IdleFind
NextS == Slugify /\ UNCHANGED <<runVars, toml, findVars>>
SpecSlug == InitS /\ [][NextS]_vars

\* find_rust_extensions applied to a list of roots and a directory tree
InitF == InitFind /\ IdleRun /\ toml = NotYet /\ IdleSlug
NextF == Find /\ UNCHANGED <<runVars, toml, slugVars>>
SpecFind == InitF /\ [][NextF]_vars


\* build_cargo_toml applied to one extension under a configuration
DepKeys == {"libc", "cpython"}
DepValues == { <<"\"0.2\"">>, <<"{ version = \"*\" }">> }

\* What a section of the configuration may hold: any list of key = value
\* lines in which no key comes twice.
SectionBodies ==
    { b \in SeqUpTo(DepKeys \X DepValues, Cardinality(DepKeys)) :
        \A i, j \in 1..Len(b) : i # j => b[i][1] # b[j][1] }

\* The sections build_cargo_toml may look up.
DepSections ==
    { GlobalSection, ExtSection(ExtAt(<<"a">>, <<"a">>)),
      ExtSection(ExtAt(<<"b">>, <<"b">>)) }

InitD ==
    /\ ext \in ExtPool
    /\ create_workspace \in BOOLEAN
    /\ cfg \in UNION { [dom -> SectionBodies] : dom \in SUBSET DepSections }
    /\ toml = NotYet
    /\ extensions = <<>> /\ force = FALSE /\ fs = <<>> /\ fs0 = <<>>
    /\ pc = "idle" /\ idx = 0 /\ events = <<>> /\ runs = 0 /\ prev = "none"
    /\ IdleSlug /\ IdleFind

BuildCargoToml ==
    /\ toml = NotYet
    /\ toml' = Result(build_cargo_toml(ext))
    /\ UNCHANGED <<runVars, slugVars, findVars>>

NextD == BuildCargoToml
SpecDeps == InitD /\ [][NextD]_vars

\* build_workspace_toml applied to an extension list
MemberPool ==
    ExtPool \cup { ExtAt(<<"a", ".", "b">>, <<"a", "b">>),
                   ExtAt(<<"a", ".", "b">>, <<".", "a", "b">>),
                   ExtAt(<<"b">>, <<CwdAbs, "b">>) }

InitM ==
    /\ extensions \in SeqUpTo(MemberPool, MaxExts)
    /\ toml = NotYet
    /\ force = FALSE /\ create_workspace = TRUE /\ cfg = <<>>
    /\ fs = <<>> /\ fs0 = <<>> /\ pc = "idle" /\ idx = 0 /\ ext = Unbound
    /\ events = <<>> /\ runs = 0 /\ prev = "none"
    /\ IdleSlug /\ IdleFind

BuildWorkspaceToml ==
    /\ toml = NotYet
    /\ toml' = Result(build_workspace_toml)
    /\ UNCHANGED <<runVars, slugVars, findVars>>

NextM == BuildWorkspaceToml
SpecMembers == InitM /\ [][NextM]_vars


-----------------------------------------------------------------------------
(* Properties of _slugify (SpecSlug)                                       *)

\* ASCII letters, ASCII digits and underscore
PassThrough == ascii_letters \cup digits \cup {"_"}

\* C8: the slug has the length of the name; every position holds the name's
\* character when that is an ASCII letter, an ASCII digit or underscore and
\* an underscore otherwise; so the slug holds only such characters.
C8_SlugTransform ==
    slug # NotYet =>
        LET out == slug[1]
        IN  /\ Len(out) = Len(name)
            /\ \A i \in 1..Len(name) :
                 out[i] = IF name[i] \in PassThrough THEN name[i] ELSE "_"
            /\ \A i \in 1..Len(out) : out[i] \in PassThrough

\* a name mixing a letter, a digit, punctuation and a non-ASCII letter
C8_Witness ==
    /\ slug = Result(<<"_", "7", "_">>)
    /\ name = <<"é", "7", ".">>

-----------------------------------------------------------------------------
(* Properties of build_cargo_toml's dependencies (SpecDeps)                *)

KeysOf(items) == { items[i][1] : i \in 1..Len(items) }
ValueOf(items, key) ==
    items[CHOOSE i \in 1..Len(items) : items[i][1] = key][2]
\* what the configuration holds in a section; nothing if it is missing
Configured(section) == IF section \in DOMAIN cfg THEN cfg[section] ELSE <<>>
SectionsNamed(doc, section) ==
    { i \in 1..Len(doc) : doc[i].name = section }

\* C4: the dependencies section holds exactly the keys of the global and of
\* the per-extension section, each once, a key of both with the
\* per-extension value; a missing section contributes nothing.
C4_DependencyMerge ==
    toml # NotYet =>
        LET doc    == toml[1]
            global == Configured(GlobalSection)
            own    == Configured(ExtSection(ext))
        IN  /\ Cardinality(SectionsNamed(doc, "dependencies")) = 1
            /\ \A s \in SectionsNamed(doc, "dependencies") :
                 LET deps == doc[s].items
                 IN  /\ KeysOf(deps) = KeysOf(global) \cup KeysOf(own)
                     /\ Len(deps) = Cardinality(KeysOf(deps))
                     /\ \A k \in KeysOf(deps) :
                          ValueOf(deps, k) =
                             IF k \in KeysOf(own) THEN ValueOf(own, k)
                             ELSE ValueOf(global, k)

\* a manifest built where both sections set libc, to different values, and
\* only the global one sets cpython
C4_Witness ==
    /\ toml # NotYet
    /\ GlobalSection \in DOMAIN cfg
    /\ ExtSection(ext) \in DOMAIN cfg
    /\ KeysOf(cfg[GlobalSection]) = {"libc", "cpython"}
    /\ KeysOf(cfg[ExtSection(ext)]) = {"libc"}
    /\ ValueOf(cfg[GlobalSection], "libc") # ValueOf(cfg[ExtSection(ext)], "libc")

-----------------------------------------------------------------------------
(* Properties of build_workspace_toml (SpecMembers)                        *)

RECURSIVE SplitOn(_, _)
\* the pieces of a text between the occurrences of the token sep
SplitOn(text, sep) ==
    IF \A i \in 1..Len(text) : text[i] # sep THEN <<text>>
    ELSE LET k == CHOOSE i \in 1..Len(text) :
                    text[i] = sep /\ \A j \in 1..(i - 1) : text[j] # sep
         IN  <<SubSeq(text, 1, k - 1)>>
                 \o SplitOn(SubSeq(text, k + 1, Len(text)), sep)

\* the entries of a sequence literal "[e1, e2]"; "[]" has none
EntriesOf(value) ==
    LET inner == SubSeq(value, 2, Len(value) - 1)
    IN  IF inner = <<>> THEN <<>> ELSE SplitOn(inner, ", ")

\* the components of a path text; those of "" are none
ComponentsOf(text) ==
    IF text = <<>> THEN <<>>
    ELSE LET parts == SplitOn(text, "/")
         IN  [i \in 1..Len(parts) |-> parts[i][1]]

\* is `entry` the quoted, cwd-relative directory holding the manifest of e
IsQuotedDirOf(entry, e) ==
    /\ Len(entry) >= 2
    /\ entry[1] = "\"" /\ entry[Len(entry)] = "\""
    /\ LET dir == ComponentsOf(SubSeq(entry, 2, Len(entry) - 1))
       IN  /\ \A i \in 1..Len(dir) : dir[i] \notin {CwdAbs, ".", ".."}
           /\ path_join(dir, "Cargo.toml") = Resolve(e.path)

\* C7: the workspace manifest is one section `workspace` with the one key
\* `members`, a list with one entry per extension, in the order of the
\* extension list, each the quoted directory, relative to the current
\* working directory, that holds that extension's manifest.
C7_WorkspaceMembers ==
    toml # NotYet =>
        LET doc == toml[1]
        IN  /\ Len(doc) = 1
            /\ doc[1].name = "workspace"
            /\ Len(doc[1].items) = 1
            /\ doc[1].items[1][1] = "members"
            /\ LET value   == doc[1].items[1][2]
                   entries == EntriesOf(value)
               IN  /\ Len(value) >= 2
                   /\ value[1] = "[" /\ value[Len(value)] = "]"
                   /\ Len(entries) = Len(extensions)
                   /\ \A i \in 1..Len(extensions) :
                        IsQuotedDirOf(entries[i], extensions[i])

\* a workspace built for a nested directory followed by a top-level one
C7_Witness ==
    /\ toml # NotYet
    /\ Len(extensions) = 2
    /\ Resolve(extensions[1].path) = <<"a", "b", "Cargo.toml">>
    /\ Resolve(extensions[2].path) = <<"b", "Cargo.toml">>
    /\ toml[1][1].items[1][2] =
           <<"[", "\"", "a", "/", "b", "\"", ", ", "\"", "b", "\"", "]">>


-----------------------------------------------------------------------------
(* Properties of find_rust_extensions (SpecFind)                           *)

\* the directories the call searches: the given roots, or the current
\* working directory when none is given
SearchedRoots ==
    IF directories = <<>> THEN << <<>> >>
    ELSE [i \in 1..Len(directories) |-> Resolve(directories[i])]

\* how many roots of the list the directory d lies under (a root lies under
\* itself; a root given twice counts twice)
RootsAbove(d) ==
    Cardinality({ i \in 1..Len(SearchedRoots) : IsPrefix(SearchedRoots[i], d) })

\* how many of the returned extensions have their manifest in directory d
Hits(d) ==
    Cardinality({ i \in 1..Len(found[1]) :
                    Resolve(dirname(found[1][i].path)) = d })

\* a directory's path from the working directory, dots for separators
Dotted(d) ==
    IF d = <<>> THEN <<".">>
    ELSE JoinWith(<<".">>, [i \in 1..Len(d) |-> <<d[i]>>])

\* every returned extension is named and placed after a directory that
\* holds the entry file
WellFormed ==
    \A i \in 1..Len(found[1]) :
        LET x   == found[1][i]
            dir == dirname(x.path)
        IN  /\ Resolve(dir) \in libdirs
            /\ x.path = dir \o <<"Cargo.toml">>
            /\ x.libfile = dir \o <<"lib.rs">>
            /\ x.name = Dotted(Resolve(dir))

\* C5 as stated: exactly one extension for every directory under the roots
\* that holds the entry file, whatever the roots, and none for the others.
C5_ExactlyOnePerDirectory ==
    found # NotYet =>
        /\ \A d \in tree :
             Hits(d) = IF d \in libdirs /\ RootsAbove(d) >= 1 THEN 1 ELSE 0
        /\ WellFormed

\* C5 as amended: a directory that holds the entry file is returned once for
\* every root of the list it lies under, hence exactly once when the roots
\* neither repeat nor nest; a directory without the entry file, or under no
\* root, is never returned; names and paths are as stated.
C5_OnePerRootAndDirectory ==
    found # NotYet =>
        /\ \A d \in tree :
             Hits(d) = IF d \in libdirs THEN RootsAbove(d) ELSE 0
        /\ WellFormed

\* roots "a" and "a/b" with the entry file in a/b only: a/b is returned twice
C5_Witness ==
    /\ found # NotYet
    /\ directories = << <<"a">>, <<"a", "b">> >>
    /\ libdirs = { <<"a", "b">> }
    /\ Len(found[1]) = 2
    /\ found[1][1].name = <<"a", ".", "b">>
    /\ found[1][2].path = <<"a", "b", "Cargo.toml">>

-----------------------------------------------------------------------------
(* Properties of run() (Spec)                                              *)

Failed(ev)  == ev.kind \in {"open_failed", "write_failed"}
Touched(ev) == ev.kind \in {"write", "write_failed"}

\* the manifest an event's target is given
ManifestOf(ev) ==
    IF ev.target = "ext" THEN build_cargo_toml(extensions[ev.pos])
    ELSE build_workspace_toml

\* what file f holds after the first n events of the current run, if no
\* write fails: what the last write to it left, else what it held before
AsLeftBy(f, n) ==
    LET ws == { i \in 1..n : events[i].kind = "write" /\ events[i].file = f }
    IN  IF ws = {} THEN fs0[f]
        ELSE Written(ManifestOf(events[CHOOSE i \in ws : \A j \in ws : j <= i]))

\* C1: when an extension is processed, a missing manifest path gets the
\* manifest built for the extension, an existing one is left exactly as it
\* was without force and is overwritten with that manifest with force (a
\* write that raises ends the run instead); so without force no existing
\* extension manifest is ever changed.
C1_WritePolicy ==
    [][ /\ (pc = "loop" /\ idx <= Len(extensions)) =>
             LET e == extensions[idx]
                 p == Resolve(e.path)
             IN  /\ (fs[p] = NoFile \/ force) =>
                       \/ /\ fs' = [fs EXCEPT ![p] = Written(build_cargo_toml(e))]
                          /\ pc' = "loop"
                       \/ pc' = "error"
                 /\ (fs[p] # NoFile /\ ~force) =>
                       /\ fs' = fs
                       /\ pc' = "loop"
                       /\ events' = Append(events, Event("ext", idx, e.path, "skip"))
        /\ ~force =>
             \A i \in 1..Len(extensions) :
                 LET q == Resolve(extensions[i].path)
                 IN  fs[q] # NoFile => fs'[q] = fs[q]
      ]_vars

\* without force: b/Cargo.toml was there and is skipped, a/Cargo.toml was
\* missing and now holds the manifest built for that extension
C1_Witness ==
    /\ ~force
    /\ Len(events) = 2
    /\ events[1].kind = "skip" /\ events[1].existed
    /\ fs[events[1].file] = OldContent
    /\ events[2].kind = "write" /\ ~events[2].existed
    /\ fs[events[2].file] = Written(build_cargo_toml(extensions[2]))

\* C2: with create-workspace set and a non-empty list, the workspace
\* manifest is written when <workspace-root>/Cargo.toml is missing, skipped
\* and left unchanged when it exists and force is unset, overwritten when
\* it exists and force is set.
C2_WorkspacePolicy ==
    /\ (pc = "done" /\ create_workspace /\ extensions # <<>>) =>
          \E i \in 1..Len(events) : events[i].target = "workspace"
    /\ \A i \in 1..Len(events) :
          events[i].target = "workspace" =>
             /\ ~events[i].existed => events[i].kind # "skip"
             /\ (events[i].existed /\ ~force) =>
                   /\ events[i].kind = "skip"
                   /\ fs[events[i].file] = AsLeftBy(events[i].file, i - 1)
             /\ (events[i].existed /\ force) => events[i].kind # "skip"

\* C3: a run that follows a run which returned, with force unset and the
\* same inputs, writes nothing and changes nothing: every target it
\* considers is skipped.
C3_Idempotence ==
    (runs >= 2 /\ prev = "done" /\ ~force) =>
        /\ fs = fs0
        /\ pc # "error"
        /\ \A i \in 1..Len(events) : events[i].kind = "skip"
        /\ pc = "done" =>
              Len(events) = Len(extensions)
                  + (IF create_workspace /\ extensions # <<>> THEN 1 ELSE 0)

\* the second run has skipped two extensions and the workspace manifest,
\* the first having written at least one of the extension manifests
C3_Witness ==
    /\ runs = 2 /\ prev = "done" /\ ~force /\ pc = "done"
    /\ create_workspace
    /\ Len(events) = 3
    /\ \E i \in 1..2 : fs[events[i].file].state = "written"

\* the events of an aborted run: the failure is the last one, and when it
\* is extension N's the events are those of positions 1..N, one each
AbortsAtOnce(i) ==
    /\ i = Len(events)
    /\ pc = "error"
    /\ events[i].target = "ext" =>
          \A j \in 1..i : events[j].target = "ext" /\ events[j].pos = j

\* C6 as stated: a failed write of extension N ends the run at once, and
\* every manifest written for a position before N is on disk as written.
C6_AbortKeepsEarlierManifests ==
    \A i \in 1..Len(events) :
        (Failed(events[i]) /\ events[i].target = "ext") =>
            /\ AbortsAtOnce(i)
            /\ \A j \in 1..(i - 1) :
                 events[j].kind = "write" =>
                    fs[events[j].file] = Written(ManifestOf(events[j]))

\* C6 as amended: a failed write ends the run at once (no later extension
\* and no workspace manifest is examined) and nothing is rolled back: every
\* file but the failing target is as the earlier positions left it; the
\* failing target is as they left it when open() failed and truncated when
\* the write failed after open(), so a manifest an earlier position wrote
\* to that same path is lost.
C6_AbortNoRollback ==
    /\ pc = "error" => events # <<>> /\ Failed(events[Len(events)])
    /\ \A i \in 1..Len(events) :
          Failed(events[i]) =>
             /\ AbortsAtOnce(i)
             /\ \A f \in Files \ {events[i].file} : fs[f] = AsLeftBy(f, i - 1)
             /\ fs[events[i].file] =
                   IF events[i].kind = "open_failed"
                   THEN AsLeftBy(events[i].file, i - 1)
                   ELSE Truncated

\* the first extension's manifest was written, the second extension's
\* write failed, and the first manifest is still on disk
C6_Witness ==
    /\ pc = "error"
    /\ Len(events) = 2
    /\ events[1].kind = "write"
    /\ events[2].kind = "write_failed"
    /\ events[1].file # events[2].file
    /\ fs[events[1].file] = Written(build_cargo_toml(extensions[1]))
    /\ create_workspace

\* how often the current run opened file f for writing
WritesTo(f) ==
    Cardinality({ i \in 1..Len(events) :
                    Touched(events[i]) /\ events[i].file = f })

\* no two extensions share a manifest file, and none has the workspace
\* manifest's file when a workspace manifest is asked for
DistinctTargets ==
    /\ \A i, j \in 1..Len(extensions) :
          i # j => Resolve(extensions[i].path) # Resolve(extensions[j].path)
    /\ create_workspace =>
          \A i \in 1..Len(extensions) :
              Resolve(extensions[i].path) # Resolve(toml_path)

\* C9 as stated: in one run every file is written at most once, whatever
\* the extension list and the options.
C9_WrittenOnce == \A f \in Files : WritesTo(f) <= 1

\* C9 as amended: in one run every file is written at most once when force
\* is unset, or when the targets of the run are distinct files.
C9_WrittenOnceUnlessForcedOnSharedPath ==
    (~force \/ DistinctTargets) => \A f \in Files : WritesTo(f) <= 1

\* without force, two extensions share a missing manifest: the first
\* writes it, the second skips it
C9_Witness ==
    /\ ~force /\ pc = "done"
    /\ Len(extensions) = 2
    /\ Len(events) >= 2
    /\ events[1].file = events[2].file
    /\ events[1].kind = "write" /\ events[2].kind = "skip"
    /\ WritesTo(events[1].file) = 1

=============================================================================
